---- MODULE Spec2Model ----
(***************************************************************************)
(* The SchedulerManager of socio-pilot (services/schedulerManager.ts): the *)
(* start/stop lifecycle, the two periodic timers, the recovery load and    *)
(* the dispatch loop processScheduledPosts with its retry logic, as a      *)
(* state machine over the JavaScript event loop.  Every action is one run  *)
(* of synchronous code: from a callback's entry, or from the resumption of *)
(* an await, up to the next await.                                         *)
(*                                                                         *)
(* Time is counted in units of 15 seconds (the largest unit that divides   *)
(* every delay of the code and still separates three instants inside the   *)
(* 30 second rate-limit window).                                           *)
(*                                                                         *)
(* Content generation (generateContentForToday, watchScheduleChanges,      *)
(* hasContentForToday, scheduleContentForPlatform, the daily timers of     *)
(* scheduleDailyGeneration) and the IST utilities of utils/timeUtils.ts    *)
(* are modelled with the host's time zone as part of the state: a Date is  *)
(* its time value, and setHours, setDate and getDay work on the host's     *)
(* local clock, as in JavaScript.                                          *)
(*                                                                         *)
(* Scope: one user with at most one posting_schedule row for one           *)
(* platform.  In Spec, SpecSession and SpecRetry the user has no active    *)
(* schedule: generateContentForToday returns without creating posts and    *)
(* the callbacks of the watch timer and of the daily timers are not        *)
(* actions.  SpecGen and SpecRestart have an active schedule and all of    *)
(* these callbacks, and leave the dispatch timer out.  SpecTime applies    *)
(* the time utilities to a range of instants on three hosts.  SpecAi is    *)
(* one call of ContentGenerator.callAIAPI over every list of active        *)
(* models.  SpecFaults is SpecSession with posts of an unsupported         *)
(* platform and with notifications of the dispatch loop that throw.        *)
(* SpecDrain is one session that stays running, with weak fairness, for    *)
(* the eventual fate of the jobs.                                          *)
(*                                                                         *)
(* Every update of a Post is applied.  A publish call may take any time    *)
(* and may return or throw; a read, an insert, a content generation or     *)
(* the error notification of the generation may fail.  Outside of          *)
(* SpecFaults every job names a supported platform and the notifications   *)
(* of the dispatch loop return.  The weekdays of a schedule row are        *)
(* stored as numbers or as numeric strings.                                *)
(***************************************************************************)
EXTENDS Integers, Sequences, FiniteSets, TLC

\* ---- bounds of the model ------------------------------------------------
MaxPosts == 2
MaxStarts == 2
MaxTicks == 2
MaxTime == 10
MaxSessionTime == 16
MaxRetryTime == 36
MaxGenerated == 2
MaxGens == 1
MaxGenTime == 4
MaxEdits == 1
MaxHalfHours == 120
MaxModels == 3

\* ---- constants of the program, in units of 15 s --------------------------
RATE_LIMIT == 2
DISPATCH_PERIOD == 4
WATCH_PERIOD == 2
BACKOFF_MINUTE == 4
MAX_ATTEMPTS == 3

\* Date.now() of a real clock is far beyond the rate-limit window, so the
\* first dispatch tick after lastProcessTime = 0 is never rate-limited.
Epoch == RATE_LIMIT

Min(a, b) == IF a < b THEN a ELSE b

\* Row ids of content_posts: the rows 1 .. MaxPosts exist from the start, the
\* others are free for rows that generation inserts.
Posts == 1 .. MaxPosts + MaxGenerated
GenIds == 1 .. MaxGens
StartIds == 1 .. MaxStarts
TickIds == 1 .. MaxTicks

VARIABLES
    \* fields of SchedulerManager
    jobs,                    \* sequence of references to PostingJob objects
    objs,                    \* the PostingJob objects: attempts, scheduledTime
    intervalId,              \* handle of the dispatch timer, 0 = null
    scheduleWatchInterval,   \* handle of the schedule-watch timer, 0 = null
    isRunning,
    dailyGenerationScheduled,
    processingJobs,
    lastProcessTime,
    lastScheduleState,
    \* the event loop
    timers,                  \* the active setInterval timers
    ticks,                   \* activations of processScheduledPosts
    starters,                \* activations of start()
    now,
    \* the content_posts table
    status,
    scheduledFor,
    platformPostId,          \* TRUE once platform_post_id is set
    postedAt,                \* TRUE once posted_at is set
    errorMessage,            \* TRUE once error_message is set
    \* history
    publishCalls,            \* publish calls started per post since the last start(), counted up to 4
    publishOk,               \* publish calls that returned an id, per post, counted up to 2
    lastTick,                \* how the latest dispatch invocation ended its rate check
    sinceInvoke,             \* time since the latest dispatch invocation began, capped
    \* the host and the pure time utilities
    host,                    \* timezone of the machine: standard offset, DST switch
    calc,                    \* input and result of the latest call of a time utility
    \* the content generator
    ai,                      \* the latest call of ContentGenerator.callAIAPI
    \* faults
    supported,               \* the Posts whose platform_name is a platform of the switch
    uncaught,                \* TRUE once a promise of a timer callback was rejected
    \* content generation
    schedule,                \* the user's posting_schedule row
    gens,                    \* activations of generateContentForToday / watchScheduleChanges
    dailyTimers,             \* timers of scheduleDailyGeneration, which no field holds
    \* history of generation
    slotOf,                  \* slot index of each generated Post, -1 for the others
    lastObserved,            \* fingerprint seen by the latest schedule-watch tick, and
                             \* whether it differed from the recorded state
    edits                    \* edits of the posting_schedule row so far

manager == <<jobs, objs, intervalId, scheduleWatchInterval, isRunning,
             dailyGenerationScheduled, processingJobs, lastProcessTime,
             lastScheduleState>>
store == <<status, scheduledFor, platformPostId, postedAt, errorMessage>>
history == <<publishCalls, publishOk, lastTick, sinceInvoke>>
faults == <<supported, uncaught>>
environment == <<host, calc, ai, faults>>
generation == <<schedule, gens, dailyTimers>>
genHistory == <<slotOf, lastObserved, edits>>
beyondDispatch == <<environment, generation, genHistory>>
vars == <<manager, timers, ticks, starters, now, store, history, beyondDispatch>>

\* ---- Date and the time utilities (utils/timeUtils.ts) ----------------------

\* A Date is its time value, in units of 15 s since the start of a day in UTC.
HOUR == 60 * BACKOFF_MINUTE
DAY == 24 * HOUR

\* IST_OFFSET_HOURS * 60 * 60 * 1000 with IST_OFFSET_HOURS = 5.5
IST_OFFSET_MS == (11 * HOUR) \div 2

\* The timezone of the machine: local time minus UTC is std, and one hour more
\* from the instant dstAt on when the zone switches to summer time.
NoDst == -1
OffsetAt(d) ==
    IF host.dstAt # NoDst /\ d >= host.dstAt THEN host.std + HOUR ELSE host.std

\* The local date and time that a Date shows through getHours(), getDate(), ...
LocalOf(d) == d + OffsetAt(d)

\* The Date that shows the local date and time w.
UtcOf(w) ==
    LET a == w - host.std
        b == w - host.std - HOUR
    IN IF host.dstAt = NoDst \/ a < host.dstAt THEN a
       ELSE IF b >= host.dstAt THEN b ELSE a

StartOfDay(w) == w - (w % DAY)

\* d.setHours(h, m, 0, 0), hm being the time of day h:m
setHours(d, hm) == UtcOf(StartOfDay(LocalOf(d)) + hm)

\* d.setDate(d.getDate() + k)
addDays(d, k) == UtcOf(LocalOf(d) + k * DAY)

\* d.getDay(), the days counted from the day in which the time value 0 lies
getDay(d) == (LocalOf(d) \div DAY) % 7

toIST(utcDate) == utcDate + IST_OFFSET_MS

\* fromIST with an offset of 5 hours.
fromISTFiveHours(istDate) == istDate - 5 * HOUR

fromIST(istDate) == istDate - IST_OFFSET_MS

\* new Date(Date.now() + new Date().getTimezoneOffset() * 60000), then toIST
getCurrentIST == toIST(now - OffsetAt(now))

\* endOfDayIST.setDate(endOfDayIST.getDate() + 1)
NextDay(d) == addDays(d, 1)

getISTDayBoundsUTC(istDate) ==
    [startUTC |-> fromIST(setHours(istDate, 0)),
     endUTC |-> fromIST(NextDay(setHours(istDate, 0)))]

NoCalc == [op |-> "none"]

\* toIST and fromIST applied to the instant t, in both orders.
CalcRoundTrip ==
    /\ calc' = [op |-> "roundTrip", t |-> now,
                utcOfLocal |-> fromIST(toIST(now)),
                localOfUtc |-> toIST(fromIST(now))]
    /\ UNCHANGED <<manager, timers, ticks, starters, now, store, history, host, faults,
                   ai, generation, genHistory>>

\* getISTDayBoundsUTC(istDate) for the Date t.
CalcDayBounds ==
    /\ calc' = [op |-> "dayBounds", t |-> now,
                startUTC |-> getISTDayBoundsUTC(now).startUTC,
                endUTC |-> getISTDayBoundsUTC(now).endUTC]
    /\ UNCHANGED <<manager, timers, ticks, starters, now, store, history, host, faults,
                   ai, generation, genHistory>>

\* A PostingJob object is named by its post and by the start() whose load
\* created it, 0 for the object that generation pushed; its postId never
\* changes, attempts and scheduledTime do.
ObjIds == Posts \X (0 .. MaxStarts)
PostOf(o) == o[1]

IdleTick == [pc |-> "idle", due |-> <<>>]
IdleStart == [pc |-> "idle", posts |-> <<>>]
IdleGen == [pc |-> "idle"]

NewJob(p) == [attempts |-> 0, scheduledTime |-> scheduledFor[p]]
NoJob == [attempts |-> 0, scheduledTime |-> 0]

\* A job object that neither the list js nor the due jobs of an activation in
\* tk refer to is garbage: nothing reads its fields again.
Reachable(o, js, tk) ==
    \/ \E i \in 1 .. Len(js) : js[i] = o
    \/ \E t \in TickIds : \E i \in 1 .. Len(tk[t].due) : tk[t].due[i] = o

Collect(heap, js, tk) ==
    [o \in ObjIds |-> IF Reachable(o, js, tk) THEN heap[o] ELSE NoJob]

\* ---- ContentGenerator.callAIAPI() -----------------------------------------

\* const priority = ['rapidapi-gpt4', 'gemini-2.0', 'llama3-8b']
priority == <<"rapidapi-gpt4", "gemini-2.0", "llama3-8b">>

\* The models a user may have in active_models: the three above and a custom one.
Models == {"rapidapi-gpt4", "gemini-2.0", "llama3-8b", "custom-x"}

\* The values of settings.active_models.
ActiveLists == UNION {[1 .. n -> Models] : n \in 0 .. MaxModels}

Includes(seq, m) == \E i \in 1 .. Len(seq) : seq[i] = m

RECURSIVE PushNew(_, _)
\* activeModels.forEach(m => { if (!ordered.includes(m)) ordered.push(m) })
PushNew(ordered, rest) ==
    IF rest = <<>> THEN ordered
    ELSE PushNew(IF Includes(ordered, Head(rest)) THEN ordered
                 ELSE Append(ordered, Head(rest)),
                 Tail(rest))

\* The models in the order of the settings, whatever the priority list says.
getOrderedModelsAsConfigured(activeModels) == PushNew(<<>>, activeModels)

getOrderedModels(activeModels) ==
    PushNew(SelectSeq(priority, LAMBDA m : Includes(activeModels, m)), activeModels)

\* settings.active_models when it is a non-empty array, else the three models
ActiveOrDefault(active) == IF Len(active) > 0 THEN active ELSE priority

NoAi == [pc |-> "idle"]

\* generateContent() calls callAIAPI(prompt, settings): the settings hold the
\* list `active`, the backends in `valid` will answer with a valid payload,
\* and `user` tells whether auth has a user.  The generator keeps nothing
\* from one call to the next, so one call is followed here.
AiCall ==
    /\ ai.pc = "idle"
    /\ \E active \in ActiveLists, valid \in SUBSET Models, user \in BOOLEAN :
          ai' = [pc |-> "user", active |-> active, valid |-> valid,
                 user |-> user, ordered |-> <<>>, called |-> <<>>,
                 result |-> "none", from |-> "", lastError |-> ""]
    /\ UNCHANGED <<manager, timers, ticks, starters, now, store, history, host, faults,
                   calc, generation, genHistory>>

\* auth.getUser() returns: without a user the call throws, else the models
\* are ordered and the first one is invoked.
AiGetUser ==
    /\ ai.pc = "user"
    /\ ai' = IF ai.user
             THEN [ai EXCEPT !.pc = "invoke",
                             !.ordered = getOrderedModels(ActiveOrDefault(ai.active))]
             ELSE [ai EXCEPT !.pc = "done", !.result = "error",
                             !.lastError = "Not authenticated"]
    /\ UNCHANGED <<manager, timers, ticks, starters, now, store, history, host, faults,
                   calc, generation, genHistory>>

\* The model being invoked: the one after those already called.
AiModel == ai.ordered[Len(ai.called) + 1]

\* functions.invoke() returns a payload with title and body: it is returned.
AiValid ==
    /\ ai.pc = "invoke"
    /\ AiModel \in ai.valid
    /\ ai' = [ai EXCEPT !.pc = "done", !.called = Append(@, AiModel),
                        !.result = "ok", !.from = AiModel]
    /\ UNCHANGED <<manager, timers, ticks, starters, now, store, history, host, faults,
                   calc, generation, genHistory>>

\* functions.invoke() returns an error or an invalid payload: the next model
\* is invoked, or after the last one the call throws with lastError.
AiFails ==
    /\ ai.pc = "invoke"
    /\ AiModel \notin ai.valid
    /\ ai' = IF Len(ai.called) + 1 < Len(ai.ordered)
             THEN [ai EXCEPT !.called = Append(@, AiModel), !.lastError = AiModel]
             ELSE [ai EXCEPT !.pc = "done", !.called = Append(@, AiModel),
                             !.lastError = AiModel, !.result = "error"]
    /\ UNCHANGED <<manager, timers, ticks, starters, now, store, history, host, faults,
                   calc, generation, genHistory>>

\* The manager as constructed, and an event loop with nothing pending.
FreshManager ==
    /\ jobs = <<>>
    /\ objs = [o \in ObjIds |-> NoJob]
    /\ intervalId = 0
    /\ scheduleWatchInterval = 0
    /\ isRunning = FALSE
    /\ dailyGenerationScheduled = FALSE
    /\ processingJobs = {}
    /\ lastProcessTime = 0
    /\ lastScheduleState = ""
    /\ timers = {}
    /\ ticks = [t \in TickIds |-> IdleTick]
    /\ starters = [s \in StartIds |-> IdleStart]
    /\ gens = [g \in GenIds |-> IdleGen]
    /\ dailyTimers = <<>>
    /\ calc = NoCalc
    /\ ai = NoAi

NoHistory ==
    /\ publishCalls = [p \in Posts |-> 0]
    /\ publishOk = [p \in Posts |-> 0]
    /\ lastTick = "none"
    /\ sinceInvoke = RATE_LIMIT
    /\ slotOf = [p \in Posts |-> -1]
    /\ lastObserved = [fp |-> "", changed |-> FALSE]
    /\ edits = 0
    /\ uncaught = FALSE

UtcHost == [std |-> 0, dstAt |-> NoDst]
NoSchedule ==
    [active |-> FALSE, maxPosts |-> 0, times |-> <<>>, days |-> {},
     strings |-> FALSE]

\* A user with MaxPosts scheduled Posts, all due, and no active posting
\* schedule, on a machine in UTC.
Init ==
    /\ FreshManager
    /\ NoHistory
    /\ now = Epoch
    /\ host = UtcHost
    /\ schedule = NoSchedule
    /\ status = [p \in Posts |-> IF p <= MaxPosts THEN "scheduled" ELSE "none"]
    /\ scheduledFor = [p \in Posts |-> 0]
    /\ platformPostId = [p \in Posts |-> FALSE]
    /\ postedAt = [p \in Posts |-> FALSE]
    /\ errorMessage = [p \in Posts |-> FALSE]
    /\ supported = Posts

\* ---- start() and stop() ---------------------------------------------------

\* The synchronous head of start() after its guard: the flag and both timers.
StartTimers(s) ==
    /\ isRunning' = TRUE
    /\ intervalId' = s
    /\ scheduleWatchInterval' = s
    /\ timers' = timers \cup
          { [kind |-> "dispatch", id |-> s, due |-> now + DISPATCH_PERIOD],
            [kind |-> "watch", id |-> s, due |-> now + WATCH_PERIOD] }
    /\ starters' = [starters EXCEPT ![s] = [pc |-> "load", posts |-> <<>>]]
    /\ publishCalls' = [p \in Posts |-> 0]
    /\ UNCHANGED <<jobs, objs, dailyGenerationScheduled, processingJobs,
                   lastProcessTime, lastScheduleState, ticks, now, store,
                   publishOk, lastTick, sinceInvoke>>
    /\ UNCHANGED beyondDispatch

\* start() without its isRunning guard.
StartUnguarded(s) ==
    /\ starters[s].pc = "idle"
    /\ \A r \in StartIds : r < s => starters[r].pc # "idle"
    /\ StartTimers(s)

\* start(): a no-op when already running, else the head above, which leaves
\* the activation awaiting loadScheduledPosts().
Start(s) ==
    /\ starters[s].pc = "idle"
    /\ \A r \in StartIds : r < s => starters[r].pc # "idle"
    /\ IF isRunning THEN UNCHANGED vars ELSE StartTimers(s)

\* clearInterval of a handle removes the timer that handle names.
ClearInterval(ts, kind, id) == { tm \in ts : ~(tm.kind = kind /\ tm.id = id) }

\* stop() that also puts every Post in status posting back to scheduled.
StopRevertsPosting ==
    /\ timers' = ClearInterval(ClearInterval(timers, "dispatch", intervalId),
                               "watch", scheduleWatchInterval)
    /\ intervalId' = 0
    /\ scheduleWatchInterval' = 0
    /\ isRunning' = FALSE
    /\ processingJobs' = {}
    /\ lastProcessTime' = 0
    /\ lastScheduleState' = ""
    /\ status' = [p \in DOMAIN status |->
                     IF status[p] = "posting" THEN "scheduled" ELSE status[p]]
    /\ UNCHANGED <<jobs, objs, dailyGenerationScheduled, ticks, starters, now,
                   scheduledFor, platformPostId, postedAt, errorMessage, history>>
    /\ UNCHANGED beyondDispatch

Stop ==
    /\ timers' = ClearInterval(ClearInterval(timers, "dispatch", intervalId),
                               "watch", scheduleWatchInterval)
    /\ intervalId' = 0
    /\ scheduleWatchInterval' = 0
    /\ isRunning' = FALSE
    /\ processingJobs' = {}
    /\ lastProcessTime' = 0
    /\ lastScheduleState' = ""
    /\ UNCHANGED <<jobs, objs, dailyGenerationScheduled, ticks, starters, now,
                   store, history>>
    /\ UNCHANGED beyondDispatch

\* ---- loadScheduledPosts() --------------------------------------------------

RECURSIVE ScheduledFrom(_)
\* The rows with status 'scheduled', from post p on, in id order.
ScheduledFrom(p) ==
    IF p \notin Posts THEN <<>>
    ELSE IF status[p] = "scheduled" THEN <<p>> \o ScheduledFrom(p + 1)
    ELSE ScheduledFrom(p + 1)

\* The query runs against the table; its answer reaches the manager later.
LoadQuery(s) ==
    /\ starters[s].pc = "load"
    /\ starters' = [starters EXCEPT ![s] = [pc |-> "assign", posts |-> ScheduledFrom(1)]]
    /\ UNCHANGED <<manager, timers, ticks, now, store, history>>
    /\ UNCHANGED beyondDispatch

\* No authenticated user, or no rows returned: the job list is left as it is.
LoadNothing(s) ==
    /\ starters[s].pc = "load"
    /\ starters' = [starters EXCEPT ![s] = [pc |-> "generate", posts |-> <<>>]]
    /\ UNCHANGED <<manager, timers, ticks, now, store, history>>
    /\ UNCHANGED beyondDispatch

\* this.jobs = posts.map(...): fresh job objects replace the list.
LoadAssign(s) ==
    /\ starters[s].pc = "assign"
    /\ LET ps == starters[s].posts IN
         /\ jobs' = [i \in 1 .. Len(ps) |-> <<ps[i], s>>]
         /\ objs' = Collect([o \in ObjIds |->
                               IF o[2] = s /\ \E i \in 1 .. Len(ps) : ps[i] = o[1]
                               THEN NewJob(o[1]) ELSE objs[o]],
                            jobs', ticks)
    /\ starters' = [starters EXCEPT ![s] = [pc |-> "generate", posts |-> <<>>]]
    /\ UNCHANGED <<intervalId, scheduleWatchInterval, isRunning,
                   dailyGenerationScheduled, processingJobs, lastProcessTime,
                   lastScheduleState, timers, ticks, now, store, history>>
    /\ UNCHANGED beyondDispatch

\* ---- generateContentForToday() and scheduleDailyGeneration() ---------------

\* The schedule is active and daysOfWeek.includes(currentDayOfWeek), where
\* daysOfWeek is days_of_week with its strings parsed: `days` holds the
\* numbers of the entries, `strings` tells whether they are stored as strings.
AppliesToday == schedule.active /\ getDay(getCurrentIST) \in schedule.days

\* fromIST(nextMidnightIST), nextMidnightIST being istNow.setHours(24, 0, 0, 0)
NextMidnightUTC == fromIST(setHours(getCurrentIST, DAY))

\* scheduleDailyGeneration() is called whatever the flag says.
ArmDailyUnguarded ==
    /\ dailyGenerationScheduled' = TRUE
    /\ dailyTimers' = Append(dailyTimers,
                             [kind |-> "midnight", due |-> NextMidnightUTC])

\* if (!this.dailyGenerationScheduled) { this.scheduleDailyGeneration(); ... }
\* The timeout is created for nextMidnightUTC - now from now on.
ArmDaily ==
    /\ dailyGenerationScheduled' = TRUE
    /\ dailyTimers' = IF dailyGenerationScheduled THEN dailyTimers
                      ELSE Append(dailyTimers,
                                  [kind |-> "midnight", due |-> NextMidnightUTC])

\* generateContentForToday() of start() returns after its reads because no
\* active schedule applies today; start() then arms the daily generation once
\* and sends the 'Scheduler Started' notification, after which it does nothing.
StartGenerate(s) ==
    /\ starters[s].pc = "generate"
    /\ ~AppliesToday
    /\ ArmDaily
    /\ starters' = [starters EXCEPT ![s] = [pc |-> "done", posts |-> <<>>]]
    /\ UNCHANGED <<jobs, objs, intervalId, scheduleWatchInterval, isRunning,
                   processingJobs, lastProcessTime, lastScheduleState, timers,
                   ticks, now, store, history, environment, schedule, gens,
                   genHistory>>

\* An activation of generateContentForToday or watchScheduleChanges: who called
\* it, the schedule row it read, the slot it is at, what it has done so far.
NewGen(pc, origin, s) ==
    [pc |-> pc, origin |-> origin, starter |-> s, cfg |-> schedule, i |-> 0,
     made |-> 0, clean |-> TRUE, slots |-> <<>>, row |-> 0, at |-> 0,
     notified |-> 0]

FreeGen(g) ==
    /\ gens[g].pc = "idle"
    /\ \A u \in GenIds : u < g => gens[u].pc # "idle"

\* The activation ends; when start() was awaiting it, start() goes on in the
\* same turn of the event loop.
Finish(g) ==
    /\ gens' = [gens EXCEPT ![g] = IdleGen]
    /\ IF gens[g].origin = "start"
       THEN /\ ArmDaily
            /\ starters' = [starters EXCEPT ![gens[g].starter] =
                               [pc |-> "done", posts |-> <<>>]]
       ELSE UNCHANGED <<dailyGenerationScheduled, dailyTimers, starters>>

\* The activation goes on to its next await.
Continue(g, rec) ==
    /\ gens' = [gens EXCEPT ![g] = rec]
    /\ UNCHANGED <<dailyGenerationScheduled, dailyTimers, starters>>

\* schedule.max_posts_per_day || 3
MaxPostsOf(cfg) == IF cfg.maxPosts = 0 THEN 3 ELSE cfg.maxPosts

\* Math.min(maxPosts, preferredTimes.length)
SlotCount(cfg) == Min(MaxPostsOf(cfg), Len(cfg.times))

\* generateContentForToday() of start(): the reads return a schedule that
\* applies today, and hasContentForToday() is called.
StartGenRead(s, g) ==
    /\ starters[s].pc = "generate"
    /\ AppliesToday
    /\ FreeGen(g)
    /\ gens' = [gens EXCEPT ![g] = NewGen("check", "start", s)]
    /\ starters' = [starters EXCEPT ![s] = [pc |-> "generating", posts |-> <<>>]]
    /\ UNCHANGED <<manager, timers, ticks, now, store, history, environment,
                   schedule, dailyTimers, genHistory>>

\* forceGenerateContent() is called.
ForceGenerate(g) ==
    /\ FreeGen(g)
    /\ gens' = [gens EXCEPT ![g] = NewGen("read", "force", 0)]
    /\ UNCHANGED <<manager, timers, ticks, starters, now, store, history,
                   environment, schedule, dailyTimers, genHistory>>

\* The schedule-watch timer fires and calls watchScheduleChanges().
WatchTick(tm, g) ==
    /\ tm \in timers /\ tm.kind = "watch" /\ tm.due <= now
    /\ FreeGen(g)
    /\ timers' = (timers \ {tm}) \cup {[tm EXCEPT !.due = tm.due + WATCH_PERIOD]}
    /\ gens' = [gens EXCEPT ![g] = NewGen("read", "watch", 0)]
    /\ UNCHANGED <<manager, ticks, starters, now, store, history, environment,
                   schedule, dailyTimers, genHistory>>

\* The next-midnight timeout fires: it calls generateContentForToday() and
\* creates the 24 h interval; or that interval fires.
DailyFire(k, g) ==
    /\ k \in 1 .. Len(dailyTimers)
    /\ dailyTimers[k].due <= now
    /\ FreeGen(g)
    /\ dailyTimers' = [dailyTimers EXCEPT ![k] =
                          [kind |-> "daily",
                           due |-> IF @.kind = "midnight" THEN now + DAY
                                   ELSE @.due + DAY]]
    /\ gens' = [gens EXCEPT ![g] = NewGen("read", "daily", 0)]
    /\ UNCHANGED <<manager, timers, ticks, starters, now, store, history,
                   environment, schedule, genHistory>>

\* JSON.stringify of the active schedule rows, mapped to their six fields.
Fingerprint(rows) == ToString(rows)

ActiveRows ==
    IF schedule.active
    THEN <<[maxPosts |-> schedule.maxPosts, times |-> schedule.times,
            days |-> schedule.days, strings |-> schedule.strings]>>
    ELSE <<>>

\* The comparison of a watch tick that treats every observation as a change.
WatchCompareAlways(g, rows, applies) ==
    /\ lastObserved' = [fp |-> Fingerprint(rows),
                         changed |-> lastScheduleState # Fingerprint(rows)]
    /\ lastScheduleState' = Fingerprint(rows)
    /\ IF applies
       THEN Continue(g, [gens[g] EXCEPT !.pc = "check", !.cfg = schedule])
       ELSE Finish(g)

\* After the reads of a watch tick returned the rows: compare, record, and
\* generate for today's schedules only when the state changed.
WatchCompare(g, rows, applies) ==
    /\ lastObserved' = [fp |-> Fingerprint(rows),
                         changed |-> lastScheduleState # Fingerprint(rows)]
    /\ IF lastScheduleState = Fingerprint(rows)
       THEN /\ Finish(g)
            /\ UNCHANGED lastScheduleState
       ELSE /\ lastScheduleState' = Fingerprint(rows)
            /\ IF applies
               THEN Continue(g, [gens[g] EXCEPT !.pc = "check", !.cfg = schedule])
               ELSE Finish(g)

\* The reads of generateContentForToday() or watchScheduleChanges() return.
GenRead(g) ==
    /\ gens[g].pc = "read"
    /\ IF gens[g].origin = "watch"
       THEN WatchCompare(g, ActiveRows, AppliesToday)
       ELSE /\ UNCHANGED <<lastScheduleState, lastObserved>>
            /\ IF AppliesToday
               THEN Continue(g, [gens[g] EXCEPT !.pc = "check", !.cfg = schedule])
               ELSE Finish(g)
    /\ UNCHANGED <<jobs, objs, intervalId, scheduleWatchInterval, isRunning,
                   processingJobs, lastProcessTime, timers, ticks, now, store,
                   history, environment, schedule, slotOf,
                   edits>>

\* The reads fail: without a user both functions return at once; a failed
\* schedule query makes generateContentForToday() return and lets
\* watchScheduleChanges() see an empty list of rows.
GenReadFails(g) ==
    /\ gens[g].pc = "read"
    /\ \/ /\ Finish(g)
          /\ UNCHANGED <<lastScheduleState, lastObserved>>
       \/ /\ gens[g].origin = "watch"
          /\ WatchCompare(g, <<>>, FALSE)
    /\ UNCHANGED <<jobs, objs, intervalId, scheduleWatchInterval, isRunning,
                   processingJobs, lastProcessTime, timers, ticks, now, store,
                   history, environment, schedule, slotOf,
                   edits>>

\* The rows that the query of hasContentForToday() returns.
ContentToday ==
    LET b == getISTDayBoundsUTC(getCurrentIST) IN
      {p \in Posts : /\ status[p] \in {"posted", "published"}
                     /\ b.startUTC <= scheduledFor[p]
                     /\ scheduledFor[p] < b.endUTC}

\* scheduleContentForPlatform(schedule) up to its first generateContent();
\* with no slot to fill it returns.
BeginSlots(g) ==
    IF SlotCount(gens[g].cfg) = 0
    THEN Finish(g)
    ELSE Continue(g, [gens[g] EXCEPT !.pc = "content"])

\* hasContentForToday() returns what its query found.
GenCheck(g) ==
    /\ gens[g].pc = "check"
    /\ IF ContentToday # {}
       THEN Finish(g)
       ELSE BeginSlots(g)
    /\ UNCHANGED <<jobs, objs, intervalId, scheduleWatchInterval, isRunning,
                   processingJobs, lastProcessTime, lastScheduleState, timers,
                   ticks, now, store, history, environment, schedule, slotOf, lastObserved, edits>>

\* The query of hasContentForToday() fails or there is no user: it returns a
\* falsy value and the generation goes ahead.
GenCheckFails(g) ==
    /\ gens[g].pc = "check"
    /\ BeginSlots(g)
    /\ UNCHANGED <<jobs, objs, intervalId, scheduleWatchInterval, isRunning,
                   processingJobs, lastProcessTime, lastScheduleState, timers,
                   ticks, now, store, history, environment, schedule, slotOf, lastObserved, edits>>

\* The numbers that schedule.days_of_week.includes(checkDay) finds: includes()
\* compares with SameValueZero, under which the string "3" is not the number 3.
RawDays(cfg) == IF cfg.strings THEN {} ELSE cfg.days

\* The first j in 1 .. 7 with (currentDayOfWeek + j) % 7 in daysOfWeek, else 1.
DaysToAdd(today, days) ==
    LET js == {j \in 1 .. 7 : (today + j) % 7 \in days} IN
      IF js = {} THEN 1 ELSE CHOOSE j \in js : \A k \in js : j <= k

\* The posting time of the slot hm: today at hm on the IST clock, or when that
\* has passed the next day of the schedule; converted with fromIST.
ScheduledTimeUTC(hm, days) ==
    LET istNow == getCurrentIST
        today == setHours(istNow, hm)
    IN fromIST(IF today <= istNow
               THEN addDays(today, DaysToAdd(getDay(istNow), days))
               ELSE today)

FreeRows == {p \in Posts : status[p] = "none"}

\* The loop moves to the next slot, or the function returns.
NextSlot(g, rec) ==
    IF rec.i + 1 < SlotCount(rec.cfg)
    THEN Continue(g, [rec EXCEPT !.i = @ + 1, !.pc = "content"])
    ELSE Finish(g)

\* generateContent() returned; the posting time is computed and the insert
\* creates the row.
GenInsert(g) ==
    /\ gens[g].pc = "content"
    /\ FreeRows # {}
    /\ LET p == CHOOSE q \in FreeRows : \A r \in FreeRows : q <= r
           at == ScheduledTimeUTC(gens[g].cfg.times[gens[g].i + 1], RawDays(gens[g].cfg))
       IN /\ status' = [status EXCEPT ![p] = "scheduled"]
          /\ scheduledFor' = [scheduledFor EXCEPT ![p] = at]
          /\ slotOf' = [slotOf EXCEPT ![p] = gens[g].i]
          /\ gens' = [gens EXCEPT ![g].pc = "push", ![g].row = p, ![g].at = at]
    /\ UNCHANGED <<manager, timers, ticks, starters, now, platformPostId,
                   postedAt, errorMessage, history, environment, schedule,
                   dailyTimers, lastObserved, edits>>

\* generateContent() throws and nothing catches it inside the loop: the
\* function returns.
GenContentFailsAborts(g) ==
    /\ gens[g].pc = "content"
    /\ Finish(g)
    /\ UNCHANGED <<jobs, objs, intervalId, scheduleWatchInterval, isRunning,
                   processingJobs, lastProcessTime, lastScheduleState, timers,
                   ticks, now, store, history, environment, schedule, slotOf, lastObserved, edits>>

\* generateContent() throws: the catch block of the slot sends the 'Content
\* Generation Failed' notification.
GenContentFails(g) ==
    /\ gens[g].pc = "content"
    /\ Continue(g, [gens[g] EXCEPT !.pc = "notifyError", !.clean = FALSE,
                                   !.notified = @ + 1])
    /\ UNCHANGED <<jobs, objs, intervalId, scheduleWatchInterval, isRunning,
                   processingJobs, lastProcessTime, lastScheduleState, timers,
                   ticks, now, store, history, environment, schedule, slotOf, lastObserved, edits>>

\* The notification returns: on to the next slot.
GenNotified(g) ==
    /\ gens[g].pc = "notifyError"
    /\ NextSlot(g, gens[g])
    /\ UNCHANGED <<jobs, objs, intervalId, scheduleWatchInterval, isRunning,
                   processingJobs, lastProcessTime, lastScheduleState, timers,
                   ticks, now, store, history, environment, schedule, slotOf, lastObserved, edits>>

\* The notification throws inside the catch block of the slot: the outer
\* catch of scheduleContentForPlatform() logs it and the function returns.
GenNotifyThrows(g) ==
    /\ gens[g].pc = "notifyError"
    /\ Finish(g)
    /\ UNCHANGED <<jobs, objs, intervalId, scheduleWatchInterval, isRunning,
                   processingJobs, lastProcessTime, lastScheduleState, timers,
                   ticks, now, store, history, environment, schedule, slotOf, lastObserved, edits>>

\* The insert returns an error and the function returns.
GenSlotFailsReturns(g) ==
    /\ gens[g].pc = "content"
    /\ Finish(g)
    /\ UNCHANGED <<jobs, objs, intervalId, scheduleWatchInterval, isRunning,
                   processingJobs, lastProcessTime, lastScheduleState, timers,
                   ticks, now, store, history, environment, schedule, slotOf, lastObserved, edits>>

\* The insert returns an error: `continue`, no row, no job, no notification.
GenSlotFails(g) ==
    /\ gens[g].pc = "content"
    /\ NextSlot(g, [gens[g] EXCEPT !.clean = FALSE])
    /\ UNCHANGED <<jobs, objs, intervalId, scheduleWatchInterval, isRunning,
                   processingJobs, lastProcessTime, lastScheduleState, timers,
                   ticks, now, store, history, environment, schedule, slotOf, lastObserved, edits>>

\* The insert returned the new row: this.jobs.push({attempts: 0, ...}).
GenPush(g) ==
    /\ gens[g].pc = "push"
    /\ jobs' = Append(jobs, <<gens[g].row, 0>>)
    /\ objs' = [objs EXCEPT ![<<gens[g].row, 0>>] =
                   [attempts |-> 0, scheduledTime |-> gens[g].at]]
    /\ NextSlot(g, [gens[g] EXCEPT !.made = @ + 1,
                                    !.slots = Append(@, gens[g].cfg.times[gens[g].i + 1])])
    /\ UNCHANGED <<intervalId, scheduleWatchInterval, isRunning, processingJobs,
                   lastProcessTime, lastScheduleState, timers, ticks, now, store,
                   history, environment, schedule, slotOf,
                   lastObserved, edits>>

\* The user edits the posting_schedule row in the settings page.
EditSchedule ==
    /\ edits < MaxEdits
    /\ schedule.active
    /\ edits' = edits + 1
    /\ schedule' = [schedule EXCEPT !.maxPosts = IF @ = 1 THEN 2 ELSE 1]
    /\ UNCHANGED <<manager, timers, ticks, starters, now, store, history,
                   environment, gens, dailyTimers, slotOf, lastObserved>>

\* ---- processScheduledPosts() -----------------------------------------------

RECURSIVE Pow2(_)
\* Math.pow(2, n)
Pow2(n) == IF n = 0 THEN 1 ELSE 2 * Pow2(n - 1)

\* Math.pow(2, job.attempts) * 60000, read after attempts was incremented.
BackoffMs(attempts) == Pow2(attempts) * BACKOFF_MINUTE

\* job.scheduledTime <= currentTime && !this.processingJobs.has(job.postId)
IsDue(o) == objs[o].scheduledTime <= now /\ PostOf(o) \notin processingJobs

DueJobs == SelectSeq(jobs, IsDue)

RECURSIVE SkipProcessing(_, _)
\* The head of the for loop: `continue` past every job the set already holds.
SkipProcessing(rem, pj) ==
    IF rem = <<>> THEN <<>>
    ELSE IF PostOf(Head(rem)) \in pj THEN SkipProcessing(Tail(rem), pj)
    ELSE rem

\* The for loop over the remaining due jobs `rem` of activation t, with the
\* processing-set as it is at that moment: the next job is added to the set and
\* its 'posting' update is sent (the first await), or the loop ends.
EnterLoop(t, rem, pj) ==
    LET r == SkipProcessing(rem, pj) IN
      IF r = <<>>
      THEN /\ ticks' = [ticks EXCEPT ![t] = IdleTick]
           /\ processingJobs' = pj
      ELSE /\ ticks' = [ticks EXCEPT ![t] = [pc |-> "markPosting", due |-> r]]
           /\ processingJobs' = pj \cup {PostOf(Head(r))}

\* The body of processScheduledPosts up to its first await, for a tick that
\* passed the rate limit.
ProcessDue(t) ==
    /\ lastProcessTime' = now
    /\ IF jobs = <<>> \/ DueJobs = <<>>
       THEN UNCHANGED <<ticks, processingJobs>>
       ELSE EnterLoop(t, DueJobs, processingJobs)

\* The rate limit with a window of 15 s instead of 30 s.
RateLimitedShortWindow == now - lastProcessTime < RATE_LIMIT - 1

\* now - this.lastProcessTime < 30000
RateLimited == now - lastProcessTime < RATE_LIMIT

\* A dispatch timer fires (not before it is due, possibly late; the next
\* firing stays on the 60 s grid) and calls processScheduledPosts().
DispatchTick(tm, t) ==
    /\ tm \in timers /\ tm.kind = "dispatch" /\ tm.due <= now
    /\ ticks[t].pc = "idle"
    /\ \A u \in TickIds : u < t => ticks[u].pc # "idle"
    /\ timers' = (timers \ {tm}) \cup {[tm EXCEPT !.due = tm.due + DISPATCH_PERIOD]}
    /\ sinceInvoke' = 0
    /\ IF RateLimited
       THEN /\ lastTick' = "skipped"
            /\ UNCHANGED <<lastProcessTime, ticks, processingJobs>>
       ELSE /\ lastTick' = "ran"
            /\ ProcessDue(t)
    /\ UNCHANGED <<jobs, objs, intervalId, scheduleWatchInterval, isRunning,
                   dailyGenerationScheduled, lastScheduleState, starters, now,
                   store, publishCalls, publishOk>>
    /\ UNCHANGED beyondDispatch

Cur(t) == Head(ticks[t].due)

\* The finally block, then the next iteration of the for loop.
FinallyNext(t) == EnterLoop(t, Tail(ticks[t].due), processingJobs \ {PostOf(Cur(t))})

\* The 'posting' update has been applied; the platform's publish call starts.
MarkedPosting(t) ==
    /\ ticks[t].pc = "markPosting"
    /\ PostOf(Cur(t)) \in supported
    /\ status' = [status EXCEPT ![PostOf(Cur(t))] = "posting"]
    /\ ticks' = [ticks EXCEPT ![t].pc = "publishing"]
    /\ publishCalls' = [publishCalls EXCEPT ![PostOf(Cur(t))] = Min(@ + 1, MAX_ATTEMPTS + 1)]
    /\ UNCHANGED <<manager, timers, starters, now, scheduledFor, platformPostId,
                   postedAt, errorMessage, publishOk, lastTick, sinceInvoke>>
    /\ UNCHANGED beyondDispatch

\* The publish call returns the platform's post id; the 'published' update is sent.
PublishReturns(t) ==
    /\ ticks[t].pc = "publishing"
    /\ ticks' = [ticks EXCEPT ![t].pc = "markPublished"]
    /\ publishOk' = [publishOk EXCEPT ![PostOf(Cur(t))] = Min(@ + 1, 2)]
    /\ UNCHANGED <<manager, timers, starters, now, store, publishCalls,
                   lastTick, sinceInvoke>>
    /\ UNCHANGED beyondDispatch

\* The success path without the removal of the job from this.jobs.
MarkedPublishedKeepsJob(t) ==
    /\ ticks[t].pc = "markPublished"
    /\ status' = [status EXCEPT ![PostOf(Cur(t))] = "published"]
    /\ platformPostId' = [platformPostId EXCEPT ![PostOf(Cur(t))] = TRUE]
    /\ postedAt' = [postedAt EXCEPT ![PostOf(Cur(t))] = TRUE]
    /\ ticks' = [ticks EXCEPT ![t].pc = "notifySuccess"]
    /\ UNCHANGED <<manager, timers, starters, now, scheduledFor, errorMessage,
                   history>>
    /\ UNCHANGED beyondDispatch

\* The 'published' update has been applied; the job leaves the list and the
\* success notification is sent.
MarkedPublished(t) ==
    /\ ticks[t].pc = "markPublished"
    /\ status' = [status EXCEPT ![PostOf(Cur(t))] = "published"]
    /\ platformPostId' = [platformPostId EXCEPT ![PostOf(Cur(t))] = TRUE]
    /\ postedAt' = [postedAt EXCEPT ![PostOf(Cur(t))] = TRUE]
    /\ jobs' = SelectSeq(jobs, LAMBDA o : PostOf(o) # PostOf(Cur(t)))
    /\ ticks' = [ticks EXCEPT ![t].pc = "notifySuccess"]
    /\ objs' = Collect(objs, jobs', ticks')
    /\ UNCHANGED <<intervalId, scheduleWatchInterval, isRunning,
                   dailyGenerationScheduled, processingJobs, lastProcessTime,
                   lastScheduleState, timers, starters, now, scheduledFor,
                   errorMessage, history>>
    /\ UNCHANGED beyondDispatch

\* The catch block up to its await: one more attempt counted, then either a
\* retry with back-off or the 'failed' update.
Retry(t) ==
    LET o == Cur(t)
        n == objs[o].attempts + 1
    IN IF n < MAX_ATTEMPTS
       THEN /\ objs' = [objs EXCEPT ![o] = [attempts |-> n,
                                           scheduledTime |-> now + BackoffMs(n)]]
            /\ ticks' = [ticks EXCEPT ![t].pc = "notifyRetry"]
       ELSE /\ objs' = [objs EXCEPT ![o].attempts = n]
            /\ ticks' = [ticks EXCEPT ![t].pc = "markFailed"]

\* The 'posting' update has been applied and the switch finds no case for the
\* job's platform, which skips the failure handling: finally, the next due job.
UnsupportedPlatformSkipped(t) ==
    /\ ticks[t].pc = "markPosting"
    /\ PostOf(Cur(t)) \notin supported
    /\ status' = [status EXCEPT ![PostOf(Cur(t))] = "posting"]
    /\ FinallyNext(t)
    /\ objs' = Collect(objs, jobs, ticks')
    /\ UNCHANGED <<jobs, intervalId, scheduleWatchInterval, isRunning,
                   dailyGenerationScheduled, lastProcessTime, lastScheduleState,
                   timers, starters, now, scheduledFor, platformPostId, postedAt,
                   errorMessage, history>>
    /\ UNCHANGED beyondDispatch

\* The 'posting' update has been applied and the switch finds no case for the
\* job's platform: `throw new Error('Unsupported platform')`, caught at once.
UnsupportedPlatform(t) ==
    /\ ticks[t].pc = "markPosting"
    /\ PostOf(Cur(t)) \notin supported
    /\ status' = [status EXCEPT ![PostOf(Cur(t))] = "posting"]
    /\ Retry(t)
    /\ UNCHANGED <<jobs, intervalId, scheduleWatchInterval, isRunning,
                   dailyGenerationScheduled, processingJobs, lastProcessTime,
                   lastScheduleState, timers, starters, now, scheduledFor,
                   platformPostId, postedAt, errorMessage, history>>
    /\ UNCHANGED beyondDispatch

\* The publish call throws and the Post is put back to 'scheduled'.
PublishThrowsReverts(t) ==
    /\ ticks[t].pc = "publishing"
    /\ Retry(t)
    /\ status' = [status EXCEPT ![PostOf(Cur(t))] = "scheduled"]
    /\ UNCHANGED <<jobs, intervalId, scheduleWatchInterval, isRunning,
                   dailyGenerationScheduled, processingJobs, lastProcessTime,
                   lastScheduleState, timers, starters, now, scheduledFor,
                   platformPostId, postedAt, errorMessage, history>>
    /\ UNCHANGED beyondDispatch

\* The publish call throws.
PublishThrows(t) ==
    /\ ticks[t].pc = "publishing"
    /\ Retry(t)
    /\ UNCHANGED <<jobs, intervalId, scheduleWatchInterval, isRunning,
                   dailyGenerationScheduled, processingJobs, lastProcessTime,
                   lastScheduleState, timers, starters, now, store, history>>
    /\ UNCHANGED beyondDispatch

\* The 'failed' update has been applied; the error notification is sent.
MarkedFailed(t) ==
    /\ ticks[t].pc = "markFailed"
    /\ status' = [status EXCEPT ![PostOf(Cur(t))] = "failed"]
    /\ errorMessage' = [errorMessage EXCEPT ![PostOf(Cur(t))] = TRUE]
    /\ ticks' = [ticks EXCEPT ![t].pc = "notifyFailed"]
    /\ UNCHANGED <<manager, timers, starters, now, scheduledFor, platformPostId,
                   postedAt, history>>
    /\ UNCHANGED beyondDispatch

\* A notification returns; after the one of a failure the for loop is left.
NotifiedEndsAfterFailure(t) ==
    /\ ticks[t].pc \in {"notifySuccess", "notifyRetry", "notifyFailed"}
    /\ IF ticks[t].pc = "notifySuccess"
       THEN FinallyNext(t)
       ELSE /\ ticks' = [ticks EXCEPT ![t] = IdleTick]
            /\ processingJobs' = processingJobs \ {PostOf(Cur(t))}
    /\ objs' = Collect(objs, jobs, ticks')
    /\ UNCHANGED <<jobs, intervalId, scheduleWatchInterval, isRunning,
                   dailyGenerationScheduled, lastProcessTime, lastScheduleState,
                   timers, starters, now, store, history>>
    /\ UNCHANGED beyondDispatch

\* A notification of the loop body returns: finally, and the next due job.
Notified(t) ==
    /\ ticks[t].pc \in {"notifySuccess", "notifyRetry", "notifyFailed"}
    /\ FinallyNext(t)
    /\ objs' = Collect(objs, jobs, ticks')
    /\ UNCHANGED <<jobs, intervalId, scheduleWatchInterval, isRunning,
                   dailyGenerationScheduled, lastProcessTime, lastScheduleState,
                   timers, starters, now, store, history>>
    /\ UNCHANGED beyondDispatch

\* The success notification throws inside the try block: the catch block runs
\* for a job that has been published and has left the list.
NotifySuccessThrows(t) ==
    /\ ticks[t].pc = "notifySuccess"
    /\ Retry(t)
    /\ UNCHANGED <<jobs, intervalId, scheduleWatchInterval, isRunning,
                   dailyGenerationScheduled, processingJobs, lastProcessTime,
                   lastScheduleState, timers, starters, now, store, history>>
    /\ UNCHANGED beyondDispatch

\* A notification of the catch block throws and no finally block runs.
NotifyThrowsKeepsSet(t) ==
    /\ ticks[t].pc \in {"notifyRetry", "notifyFailed"}
    /\ ticks' = [ticks EXCEPT ![t] = IdleTick]
    /\ objs' = Collect(objs, jobs, ticks')
    /\ uncaught' = TRUE
    /\ UNCHANGED <<jobs, intervalId, scheduleWatchInterval, isRunning,
                   dailyGenerationScheduled, processingJobs, lastProcessTime,
                   lastScheduleState, timers, starters, now, store, history,
                   host, calc, ai, supported, generation, genHistory>>

\* A notification of the catch block throws: the finally block runs, the
\* error leaves the for loop and processScheduledPosts(), whose promise the
\* timer callback has dropped.
NotifyThrows(t) ==
    /\ ticks[t].pc \in {"notifyRetry", "notifyFailed"}
    /\ processingJobs' = processingJobs \ {PostOf(Cur(t))}
    /\ ticks' = [ticks EXCEPT ![t] = IdleTick]
    /\ objs' = Collect(objs, jobs, ticks')
    /\ uncaught' = TRUE
    /\ UNCHANGED <<jobs, intervalId, scheduleWatchInterval, isRunning,
                   dailyGenerationScheduled, lastProcessTime, lastScheduleState,
                   timers, starters, now, store, history, host, calc, ai,
                   supported, generation, genHistory>>

\* ---- getStatus() -----------------------------------------------------------

RECURSIVE InsertSortedLatestFirst(_, _)
\* o placed before every job whose scheduledTime is not later.
InsertSortedLatestFirst(o, sorted) ==
    IF sorted = <<>> THEN <<o>>
    ELSE IF objs[Head(sorted)].scheduledTime > objs[o].scheduledTime
         THEN <<Head(sorted)>> \o InsertSortedLatestFirst(o, Tail(sorted))
         ELSE <<o>> \o sorted

RECURSIVE InsertSorted(_, _)
\* o placed after every job whose scheduledTime is not later (a stable sort).
InsertSorted(o, sorted) ==
    IF sorted = <<>> THEN <<o>>
    ELSE IF objs[Head(sorted)].scheduledTime <= objs[o].scheduledTime
         THEN <<Head(sorted)>> \o InsertSorted(o, Tail(sorted))
         ELSE <<o>> \o sorted

RECURSIVE SortJobs(_)
\* Array.prototype.sort by scheduledTime
SortJobs(js) ==
    IF js = <<>> THEN <<>>
    ELSE InsertSorted(js[Len(js)], SortJobs(SubSeq(js, 1, Len(js) - 1)))

\* null, where a Date is expected
NullDate == -1

\* What getStatus() returns.
StatusOf(js) ==
    [isRunning |-> isRunning,
     scheduledJobs |-> Len(js),
     processingJobs |-> Cardinality(processingJobs),
     lastProcessTime |-> lastProcessTime,
     nextJob |-> IF js = <<>> THEN NullDate ELSE objs[SortJobs(js)[1]].scheduledTime]

\* getStatus() sorts this.jobs in place.
GetStatus ==
    /\ jobs' = SortJobs(jobs)
    /\ UNCHANGED <<objs, intervalId, scheduleWatchInterval, isRunning,
                   dailyGenerationScheduled, processingJobs, lastProcessTime,
                   lastScheduleState, timers, ticks, starters, now, store, history>>
    /\ UNCHANGED beyondDispatch

\* ---- the clock -------------------------------------------------------------

AdvanceTo(horizon) ==
    /\ now < horizon
    /\ now' = now + 1
    /\ sinceInvoke' = Min(sinceInvoke + 1, RATE_LIMIT)
    /\ UNCHANGED <<manager, timers, ticks, starters, store, publishCalls,
                   publishOk, lastTick>>
    /\ UNCHANGED beyondDispatch

\* No activation is suspended at an await.
Quiet ==
    /\ \A t \in TickIds : ticks[t].pc = "idle"
    /\ \A s \in StartIds : starters[s].pc \in {"idle", "done"}

\* No dispatch timer is waiting to fire.
NoTimerDue == \A tm \in timers : tm.kind = "dispatch" => now < tm.due

\* The clock of a prompt environment: every call returns and every due timer
\* fires before 15 s pass.
AdvancePrompt(horizon) == Quiet /\ NoTimerDue /\ AdvanceTo(horizon)

Next ==
    \/ \E s \in StartIds : Start(s)
    \/ Stop
    \/ \E s \in StartIds : LoadQuery(s)
    \/ \E s \in StartIds : LoadNothing(s)
    \/ \E s \in StartIds : LoadAssign(s)
    \/ \E s \in StartIds : StartGenerate(s)
    \/ \E tm \in timers, t \in TickIds : DispatchTick(tm, t)
    \/ \E t \in TickIds : MarkedPosting(t)
    \/ \E t \in TickIds : PublishReturns(t)
    \/ \E t \in TickIds : PublishThrows(t)
    \/ \E t \in TickIds : MarkedPublished(t)
    \/ \E t \in TickIds : MarkedFailed(t)
    \/ \E t \in TickIds : Notified(t)
    \/ GetStatus
    \/ AdvanceTo(MaxTime)
    \/ AdvancePrompt(MaxRetryTime)

\* Every interleaving of start(), stop(), getStatus(), timers and I/O up to
\* MaxTime; past MaxTime the clock moves only when nothing is pending, up to
\* MaxRetryTime.
Spec == Init /\ [][Next]_vars

\* The steps of one uninterrupted session: nobody calls stop().
SessionStep ==
    \/ \E s \in StartIds : Start(s)
    \/ \E s \in StartIds : LoadQuery(s)
    \/ \E s \in StartIds : LoadNothing(s)
    \/ \E s \in StartIds : LoadAssign(s)
    \/ \E s \in StartIds : StartGenerate(s)
    \/ \E tm \in timers, t \in TickIds : DispatchTick(tm, t)
    \/ \E t \in TickIds : MarkedPosting(t)
    \/ \E t \in TickIds : PublishReturns(t)
    \/ \E t \in TickIds : PublishThrows(t)
    \/ \E t \in TickIds : MarkedPublished(t)
    \/ \E t \in TickIds : MarkedFailed(t)
    \/ \E t \in TickIds : Notified(t)
    \/ GetStatus

\* One session with calls of any duration and timers of any lateness up to
\* MaxSessionTime, prompt from there to MaxRetryTime.
NextSession ==
    \/ SessionStep
    \/ AdvanceTo(MaxSessionTime)
    \/ AdvancePrompt(MaxRetryTime)

SpecSession == Init /\ [][NextSession]_vars

\* One session in a prompt environment, long enough for every back-off to
\* elapse.
NextRetry == SessionStep \/ AdvancePrompt(MaxRetryTime)

SpecRetry == Init /\ [][NextRetry]_vars


\* The scheduler is started at once and stays running; the clock moves only
\* while it runs.
NextDrain == SessionStep \/ (isRunning /\ AdvancePrompt(MaxRetryTime))

\* One session in which every call returns, every due timer fires and every
\* pending step is eventually taken.
SpecDrain == Init /\ [][NextDrain]_vars /\ WF_vars(NextDrain)

\* ---- dispatch with failing collaborators -----------------------------------

\* As Init, and Post 1 or Post 2 may name a platform that the switch lacks.
InitFaults ==
    /\ FreshManager
    /\ NoHistory
    /\ now = Epoch
    /\ host = UtcHost
    /\ schedule = NoSchedule
    /\ status = [p \in Posts |-> IF p <= MaxPosts THEN "scheduled" ELSE "none"]
    /\ scheduledFor = [p \in Posts |-> 0]
    /\ platformPostId = [p \in Posts |-> FALSE]
    /\ postedAt = [p \in Posts |-> FALSE]
    /\ errorMessage = [p \in Posts |-> FALSE]
    /\ supported \in {Posts, Posts \ {1}, Posts \ {2}}

NextFaults ==
    \/ SessionStep
    \/ \E t \in TickIds : UnsupportedPlatform(t)
    \/ \E t \in TickIds : NotifySuccessThrows(t)
    \/ \E t \in TickIds : NotifyThrows(t)
    \/ AdvancePrompt(MaxRetryTime)

\* One session in a prompt environment in which, besides the publish calls,
\* the notifications may throw and a job may name an unsupported platform.
SpecFaults == InitFaults /\ [][NextFaults]_vars

\* ---- the time utilities on their own ---------------------------------------

IstHost == [std |-> IST_OFFSET_MS, dstAt |-> NoDst]

\* A machine five hours behind UTC whose zone switches to summer time at
\* 02:00 local time of day 2.
DstHost == [std |-> -5 * HOUR, dstAt |-> 2 * DAY + 7 * HOUR]

\* Instants on a half-hour grid from the start of day 1 on.
TimeInputs == {DAY + k * (HOUR \div 2) : k \in 0 .. MaxHalfHours}

InitTime ==
    /\ FreshManager
    /\ NoHistory
    /\ now \in TimeInputs
    /\ host \in {UtcHost, IstHost, DstHost}
    /\ schedule = NoSchedule
    /\ status = [p \in Posts |-> "none"]
    /\ scheduledFor = [p \in Posts |-> 0]
    /\ platformPostId = [p \in Posts |-> FALSE]
    /\ postedAt = [p \in Posts |-> FALSE]
    /\ errorMessage = [p \in Posts |-> FALSE]
    /\ supported = Posts

NextTime == CalcRoundTrip \/ CalcDayBounds

\* toIST, fromIST and getISTDayBoundsUTC applied to every instant of the grid
\* on machines in UTC, in IST and in a zone with summer time.
SpecTime == InitTime /\ [][NextTime]_vars

\* ---- the content generator on its own -----------------------------------

NextAi == AiCall \/ AiGetUser \/ AiValid \/ AiFails

\* callAIAPI() for every list of up to MaxModels active models and every set
\* of backends that answer validly.
SpecAi == Init /\ [][NextAi]_vars

\* ---- generation on its own --------------------------------------------------

\* 10:00 on the IST clock of day 1, and 30 s before the IST midnight that ends
\* day 1.
Morning == DAY + 10 * HOUR - IST_OFFSET_MS
BeforeMidnight == 2 * DAY - IST_OFFSET_MS - RATE_LIMIT

T09 == 9 * HOUR
T18 == 18 * HOUR

\* Schedule rows: no maximum with one time on day 1; a maximum of 2 with two
\* times on day 1; a maximum of 1 with two times on days 1 and 2; a maximum of
\* 2 with two times on days 1 and 3, stored as the strings "1" and "3".
Configs ==
    { [active |-> TRUE, maxPosts |-> 0, times |-> <<T09>>, days |-> {1},
       strings |-> FALSE],
      [active |-> TRUE, maxPosts |-> 2, times |-> <<T09, T18>>, days |-> {1},
       strings |-> FALSE],
      [active |-> TRUE, maxPosts |-> 1, times |-> <<T09, T18>>, days |-> {1, 2},
       strings |-> FALSE],
      [active |-> TRUE, maxPosts |-> 2, times |-> <<T09, T18>>, days |-> {1, 3},
       strings |-> TRUE] }

\* A user with one active schedule for day 1 of the week and no scheduled
\* Post; the Posts there are were published on day 0, except that Post 1 may
\* have been published just now.
InitGen ==
    /\ FreshManager
    /\ NoHistory
    /\ now \in {Morning, BeforeMidnight}
    /\ host \in {UtcHost, IstHost}
    /\ schedule \in Configs
    /\ status = [p \in Posts |-> IF p <= MaxPosts THEN "published" ELSE "none"]
    /\ platformPostId = [p \in Posts |-> p <= MaxPosts]
    /\ postedAt = [p \in Posts |-> p <= MaxPosts]
    /\ \E at \in {HOUR, now} :
          scheduledFor = [p \in Posts |-> IF p = 1 THEN at
                                          ELSE IF p <= MaxPosts THEN HOUR ELSE 0]
    /\ errorMessage = [p \in Posts |-> FALSE]
    /\ supported = Posts

GenHorizon ==
    IF now < BeforeMidnight THEN Morning + MaxGenTime
    ELSE BeforeMidnight + MaxGenTime

\* No start() and no generation is suspended at an await.
QuietGen ==
    /\ \A s \in StartIds : starters[s].pc \in {"idle", "done"}
    /\ \A g \in GenIds : gens[g].pc = "idle"

\* Neither the schedule-watch timer nor a daily timer is waiting to fire.
NoGenTimerDue ==
    /\ \A tm \in timers : tm.kind = "watch" => now < tm.due
    /\ \A k \in 1 .. Len(dailyTimers) : now < dailyTimers[k].due

\* The clock of a prompt environment, as far as generation goes.
AdvanceGen == QuietGen /\ NoGenTimerDue /\ AdvanceTo(GenHorizon)

\* The steps of start() and of every generation.
GenStep ==
    \/ \E s \in StartIds : Start(s)
    \/ \E s \in StartIds : LoadQuery(s)
    \/ \E s \in StartIds : LoadNothing(s)
    \/ \E s \in StartIds : LoadAssign(s)
    \/ \E s \in StartIds : StartGenerate(s)
    \/ \E s \in StartIds, g \in GenIds : StartGenRead(s, g)
    \/ \E tm \in timers, g \in GenIds : WatchTick(tm, g)
    \/ \E k \in 1 .. Len(dailyTimers), g \in GenIds : DailyFire(k, g)
    \/ \E g \in GenIds : GenRead(g)
    \/ \E g \in GenIds : GenReadFails(g)
    \/ \E g \in GenIds : GenCheck(g)
    \/ \E g \in GenIds : GenCheckFails(g)
    \/ \E g \in GenIds : GenInsert(g)
    \/ \E g \in GenIds : GenSlotFails(g)
    \/ \E g \in GenIds : GenContentFails(g)
    \/ \E g \in GenIds : GenNotified(g)
    \/ \E g \in GenIds : GenNotifyThrows(g)
    \/ \E g \in GenIds : GenPush(g)

NextGen ==
    \/ GenStep
    \/ \E g \in GenIds : ForceGenerate(g)
    \/ AdvanceGen

\* One session with an unchanged schedule: start(), forceGenerateContent() at
\* any moment, the schedule-watch timer and the daily timers with every
\* generation they run, for MaxGenTime after 10:00 and around midnight on the
\* IST clock, every call returning and every due timer firing before 15 s
\* pass.  The dispatch timer is left out: no Post becomes due in that time.
SpecGen == InitGen /\ [][NextGen]_vars

NextRestart ==
    \/ GenStep
    \/ Stop
    \/ EditSchedule
    \/ AdvanceGen

\* The same with stop() and edits of the schedule at any moment, and without
\* forceGenerateContent().
SpecRestart == InitGen /\ [][NextRestart]_vars

\* ---- properties ------------------------------------------------------------

Terminal == {"published", "failed"}
JobPosts == {PostOf(jobs[i]) : i \in 1 .. Len(jobs)}
Busy(t) == ticks[t].pc # "idle"
InFlight(t) == ticks[t].pc = "publishing"
ActiveTimers(kind) == {tm \in timers : tm.kind = kind}
DispatchInvoked == \E tm \in timers, t \in TickIds : DispatchTick(tm, t)

\* C1: a Post whose persisted status is published or failed keeps that status
\* in every later step.
C1_TerminalIsFinal ==
    [][\A p \in Posts : status[p] \in Terminal => status'[p] = status[p]]_vars

\* C2: in one session at most 3 publish calls are started per post, and the
\* attempts of a job never decrease and never exceed 3.
C2_RetryCap ==
    [][/\ \A p \in Posts : publishCalls'[p] <= MAX_ATTEMPTS
       /\ \A o \in ObjIds : Reachable(o, jobs', ticks') =>
             /\ objs[o].attempts <= objs'[o].attempts
             /\ objs'[o].attempts <= MAX_ATTEMPTS]_vars

\* C3: after the third failed attempt the Post is failed with its error message
\* stored, and once the tick is done with that job it is no longer in the job
\* list, so no later tick can select it.
C3_ExhaustedJobDropped ==
    /\ \A t \in TickIds : ticks[t].pc = "notifyFailed" =>
          /\ status[PostOf(Cur(t))] = "failed"
          /\ errorMessage[PostOf(Cur(t))]
    /\ \A i \in 1 .. Len(jobs) : objs[jobs[i]].attempts >= MAX_ATTEMPTS =>
          \E t \in TickIds : Busy(t) /\ Cur(t) = jobs[i]

\* C4: when the publish of a job that failed twice succeeds, the step that
\* records the success leaves the Post published with platformPostId and
\* postedAt set, the job's attempts at 2 and the job out of the job list.
C4_SucceedsAfterTwoFailures ==
    [][\A t \in TickIds :
          (/\ ticks[t].pc = "markPublished"
           /\ ticks'[t].pc = "notifySuccess"
           /\ objs[Cur(t)].attempts = 2)
          => (/\ status'[PostOf(Cur(t))] = "published"
              /\ platformPostId'[PostOf(Cur(t))]
              /\ postedAt'[PostOf(Cur(t))]
              /\ objs'[Cur(t)].attempts = 2
              /\ PostOf(Cur(t)) \notin JobPosts')]_vars

\* C4 witness: a success has just been recorded for a job with two failures.
C4_Witness ==
    \E t \in TickIds :
        /\ ticks[t].pc = "notifySuccess"
        /\ objs[Cur(t)].attempts = 2
        /\ status[PostOf(Cur(t))] = "published"
        /\ PostOf(Cur(t)) \notin JobPosts

\* C5: the k-th failed attempt of a job that is retried sets its scheduledTime
\* to now + 2^(k-1) minutes.
C5_BackoffOneTwoFour ==
    [][\A t \in TickIds :
          (ticks[t].pc = "publishing" /\ ticks'[t].pc = "notifyRetry")
          => objs'[Cur(t)].scheduledTime
                = now + Pow2(objs'[Cur(t)].attempts - 1) * BACKOFF_MINUTE]_vars

\* C6: no two publish calls for the same post are in flight at once.
C6_OnePublishInFlight ==
    \A t, u \in TickIds :
        (t # u /\ InFlight(t) /\ InFlight(u)) => PostOf(Cur(t)) # PostOf(Cur(u))

\* C7: the publish call of a post returns successfully at most once.
C7_PublishedOnce == \A p \in Posts : publishOk[p] <= 1

C9_OneTimerPair ==
    IF isRunning
    THEN /\ ActiveTimers("dispatch") = {tm \in timers : tm.kind = "dispatch" /\ tm.id = intervalId}
         /\ ActiveTimers("watch") = {tm \in timers : tm.kind = "watch" /\ tm.id = scheduleWatchInterval}
         /\ Cardinality(ActiveTimers("dispatch")) = 1
         /\ Cardinality(ActiveTimers("watch")) = 1
    ELSE timers = {}

\* C9 witness: running again after start, stop, start, the first start() still
\* awaiting its load.
C9_Witness ==
    /\ isRunning
    /\ starters[1].pc \in {"load", "assign"}
    /\ starters[2].pc # "idle"
    /\ Cardinality(timers) = 2

\* C10: a step of stop() leaves the manager stopped with no jobs, an empty
\* processing-set and the rate-limit bookkeeping reset, which is what
\* getStatus() then reports; a second stop() changes nothing.
C10_StopClearsAll ==
    [][Stop => /\ StatusOf(jobs)'.isRunning = FALSE
               /\ StatusOf(jobs)'.scheduledJobs = 0
               /\ StatusOf(jobs)'.processingJobs = 0
               /\ StatusOf(jobs)'.lastProcessTime = 0
               /\ jobs' = <<>>
               /\ processingJobs' = {}
               /\ (~isRunning => UNCHANGED vars)]_vars

\* C11: a step of stop() leaves the persisted Posts as they are: the same rows,
\* each with the same status, scheduledFor and other columns.
C11_StopKeepsStore == [][Stop => UNCHANGED store]_vars

\* C11 witness: stopped after a start, with one Post being posted by a tick
\* still in progress and another Post still scheduled.
C11_Witness ==
    /\ ~isRunning
    /\ starters[1].pc # "idle"
    /\ \E t \in TickIds : Busy(t) /\ status[PostOf(Cur(t))] = "posting"
    /\ \E p \in Posts : status[p] = "scheduled"

\* C13: no publish call is started while the scheduler is stopped, not even by
\* a dispatch tick that was already going through its due jobs.
C13_NoPublishWhileStopped ==
    [][(\E t \in TickIds : MarkedPosting(t)) => isRunning]_vars

\* C19: converting an instant to IST and back, or from IST and back, gives the
\* instant again.
C19_RoundTrip ==
    calc.op = "roundTrip" => calc.utcOfLocal = calc.t /\ calc.localOfUtc = calc.t

\* C19 witness: the round trip was computed for an instant after day 1.
C19_Witness == calc.op = "roundTrip" /\ calc.t > 2 * DAY

\* C20: the day bounds of a local instant t are 24 h apart and contain the UTC
\* image of t, the start included and the end excluded.
C20_DayBounds ==
    calc.op = "dayBounds" =>
        /\ calc.endUTC - calc.startUTC = DAY
        /\ calc.startUTC <= fromIST(calc.t)
        /\ fromIST(calc.t) < calc.endUTC

\* C12: no daily-generation timer fires while the scheduler is stopped.
C12_NoDailyFireWhileStopped ==
    [][(\E k \in 1 .. Len(dailyTimers), g \in GenIds : DailyFire(k, g))
       => isRunning]_vars

\* The UTC instant at which the current day of the +5:30 clock began.
LocalDayStart == ((now + IST_OFFSET_MS) \div DAY) * DAY - IST_OFFSET_MS

\* The Posts published or posted whose scheduledFor lies in the current local day.
PublishedToday ==
    {p \in Posts : /\ status[p] \in {"posted", "published"}
                   /\ LocalDayStart <= scheduledFor[p]
                   /\ scheduledFor[p] < LocalDayStart + DAY}

Generated == {p \in Posts : slotOf[p] >= 0}

\* C14: a run of the per-platform generation in which every slot succeeded,
\* with nothing published today, ends having created min(maxPostsPerDay,
\* preferredTimes.length) Posts, for the first that many preferred times in order.
C14_OneRunFillsSlots ==
    [][\A g \in GenIds :
          (/\ gens[g].pc = "push" /\ gens'[g].pc = "idle"
           /\ gens[g].clean /\ PublishedToday = {})
          => LET cfg == gens[g].cfg
                 n == Min(cfg.maxPosts, Len(cfg.times))
             IN /\ gens[g].made + 1 = n
                /\ Append(gens[g].slots, cfg.times[gens[g].i + 1])
                      = SubSeq(cfg.times, 1, n)]_vars

\* C15: no Post is inserted by a generation while a Post published or posted
\* for the current local day exists.
C15_NothingWhenContentExists ==
    [][(\E g \in GenIds : GenInsert(g)) => PublishedToday = {}]_vars

\* C16: with an unchanged schedule of at least one post per day, the Posts
\* generated within one local day are never more than min(maxPostsPerDay,
\* preferredTimes.length).
C16_NoRepeatedGeneration ==
    (now < BeforeMidnight /\ schedule.maxPosts >= 1)
    => Cardinality(Generated) <= Min(schedule.maxPosts, Len(schedule.times))

WatchReadEnds(g) ==
    gens[g].pc = "read" /\ gens[g].origin = "watch" /\ gens'[g].pc # "read"

QuietWatchTick(g) ==
    /\ gens'[g].pc = "idle"
    /\ UNCHANGED <<manager, timers, ticks, starters, store, schedule, dailyTimers>>

\* C17 as stated: a watch tick that sees the fingerprint which the watch tick
\* before it saw runs no generation and changes nothing, and a watch tick
\* generates only when it sees another fingerprint than the tick before it.
C17_SameAsPreviousObservation ==
    [][\A g \in GenIds : WatchReadEnds(g) =>
          /\ (lastObserved'.fp = lastObserved.fp /\ lastObserved.fp # "")
                => QuietWatchTick(g)
          /\ gens'[g].pc = "check" => lastObserved'.fp # lastObserved.fp]_vars

\* C17 amended: a watch tick that sees the fingerprint recorded in
\* lastScheduleState, which stop() clears, runs no generation and changes
\* nothing, and a watch tick generates only when it sees another fingerprint
\* than the recorded one.
C17_SameAsRecordedState ==
    [][\A g \in GenIds : WatchReadEnds(g) =>
          /\ lastObserved'.fp = lastScheduleState => QuietWatchTick(g)
          /\ gens'[g].pc = "check" => lastObserved'.fp # lastScheduleState]_vars

\* C17 witness: the latest watch tick saw the fingerprint of an active schedule
\* that was already recorded.
C17_Witness ==
    /\ ~lastObserved.changed
    /\ lastObserved.fp = Fingerprint(ActiveRows)
    /\ schedule.active
    /\ lastScheduleState = lastObserved.fp

\* C18: with maxPostsPerDay 2, times 09:00 and 18:00, today the only weekday
\* and 10:00 passed on the local clock, the Post of slot 1 is scheduled for
\* today 18:00 local and the Post of slot 0 for 09:00 local seven days on.
C18_ScenarioTenOClock ==
    (/\ now < BeforeMidnight
     /\ schedule = [active |-> TRUE, maxPosts |-> 2, times |-> <<T09, T18>>,
                    days |-> {1}, strings |-> FALSE])
    => \A p \in Generated :
          /\ slotOf[p] = 1 => scheduledFor[p] = LocalDayStart + T18
          /\ slotOf[p] = 0 => scheduledFor[p] = LocalDayStart + 7 * DAY + T09

\* C21: on every host, the scheduledFor stored for a slot that has not passed
\* today is that time of the current day of the +5:30 clock as a UTC instant,
\* and the window of the has-content-for-today query is that day.
C21_HostIndependent ==
    /\ \A g \in GenIds :
          gens[g].pc = "check" =>
             getISTDayBoundsUTC(getCurrentIST)
                = [startUTC |-> LocalDayStart, endUTC |-> LocalDayStart + DAY]
    /\ \A g \in GenIds :
          gens[g].pc = "push" =>
             LET hm == gens[g].cfg.times[gens[g].i + 1] IN
               now < LocalDayStart + hm
                  => scheduledFor[gens[g].row] = LocalDayStart + hm

\* The scheduledTime of the jobs of the list, as a set.
TimesOf(js) == {objs[js[i]].scheduledTime : i \in 1 .. Len(js)}

\* C27: getStatus() returns the running flag, the number of jobs, the size of
\* the processing-set and the least scheduledTime of the jobs, or null for an
\* empty list.
C27_StatusSnapshot ==
    [][GetStatus =>
          LET ret == StatusOf(jobs) IN
            /\ ret.isRunning = isRunning
            /\ ret.scheduledJobs = Len(jobs)
            /\ ret.processingJobs = Cardinality(processingJobs)
            /\ IF jobs = <<>> THEN ret.nextJob = NullDate
               ELSE /\ ret.nextJob \in TimesOf(jobs)
                    /\ \A x \in TimesOf(jobs) : ret.nextJob <= x]_vars

\* C27 witness: the list holds a job with a later post id before one with an
\* earlier post id and an earlier scheduledTime after it, which only the sort
\* of getStatus() brings about, while a job is being processed.
C27_Witness ==
    /\ processingJobs # {}
    /\ \E i, j \in 1 .. Len(jobs) :
          /\ i < j
          /\ PostOf(jobs[i]) > PostOf(jobs[j])
          /\ objs[jobs[i]].scheduledTime < objs[jobs[j]].scheduledTime

\* C28: getStatus() changes no field of the manager, the order of the job
\* list included, and no timer.
C28_GetStatusReadOnly == [][GetStatus => UNCHANGED <<manager, timers>>]_vars

\* C26: when the load step of start() completes, the job list holds exactly
\* one job, with attempts 0 and scheduledTime = scheduledFor, for each Post in
\* status scheduled and no job for any other Post.
C26_LoadResyncs ==
    [][\A s \in StartIds : LoadAssign(s) =>
          /\ \A p \in Posts :
                Cardinality({i \in 1 .. Len(jobs') : PostOf(jobs'[i]) = p})
                   = IF status[p] = "scheduled" THEN 1 ELSE 0
          /\ \A i \in 1 .. Len(jobs') :
                objs'[jobs'[i]] = [attempts |-> 0,
                                   scheduledTime |-> scheduledFor[PostOf(jobs'[i])]]]_vars

\* The place of a model in the priority list, the others coming after it.
Rank(m) ==
    IF Includes(priority, m) THEN CHOOSE i \in 1 .. Len(priority) : priority[i] = m
    ELSE Len(priority) + 1

FirstAt(seq, m) == CHOOSE i \in 1 .. Len(seq) : seq[i] = m /\ \A j \in 1 .. i - 1 : seq[j] # m

\* seq lists each model of `active` once: those of the priority list first, in
\* its order, then the others in the order in which `active` has them.
InPriorityOrder(seq, active) ==
    /\ {seq[i] : i \in 1 .. Len(seq)} = {active[i] : i \in 1 .. Len(active)}
    /\ \A i, j \in 1 .. Len(seq) :
          i < j => /\ seq[i] # seq[j]
                   /\ Rank(seq[i]) <= Rank(seq[j])
                   /\ Rank(seq[i]) = Rank(seq[j])
                         => FirstAt(active, seq[i]) < FirstAt(active, seq[j])

\* The call went through the models of `active` in priority order, returned
\* the answer of the first valid one without calling a later one, and failed
\* only when all of them failed, with the failure of the last.
TriedInOrder(active) ==
    /\ InPriorityOrder(ai.ordered, active)
    /\ \E n \in 0 .. Len(ai.ordered) :
          /\ ai.called = SubSeq(ai.ordered, 1, n)
          /\ \A i \in 1 .. n - 1 : ai.ordered[i] \notin ai.valid
          /\ IF n > 0 /\ ai.ordered[n] \in ai.valid
             THEN ai.result = "ok" /\ ai.from = ai.ordered[n]
             ELSE /\ n = Len(ai.ordered)
                  /\ ai.result = "error"
                  /\ n > 0 => ai.lastError = ai.ordered[n]

Siblings(t) == SkipProcessing(Tail(ticks[t].due), processingJobs \ {PostOf(Cur(t))})

\* C22: when the handling of a failed job ends with its notification sent, the
\* tick goes on to its next due job that is not being processed, and ends only
\* when there is none.
C22_SiblingsGoOn ==
    [][\A t \in TickIds :
          (/\ ticks[t].pc \in {"notifyRetry", "notifyFailed"}
           /\ ticks'[t] # ticks[t]
           /\ ~NotifyThrows(t))
          => IF Siblings(t) = <<>> THEN ticks'[t].pc = "idle"
             ELSE ticks'[t] = [pc |-> "markPosting", due |-> Siblings(t)]]_vars

\* C22 witness: a tick is processing Post 2 at the instant at which the first
\* publish call for Post 1 failed and Post 1 got its retry time.
C22_Witness ==
    /\ 1 \in supported
    /\ ~uncaught
    /\ \E t \in TickIds, o \in ObjIds :
          /\ Busy(t) /\ PostOf(Cur(t)) = 2
          /\ PostOf(o) = 1 /\ publishCalls[1] = 1
          /\ objs[o] = [attempts |-> 1, scheduledTime |-> now + BackoffMs(1)]

\* C24: no promise of a timer callback is ever rejected.
C24_NoUncaught == ~uncaught

\* C25: a due job with an unsupported platform starts no publish call and is
\* counted as a failed attempt: a retry after the back-off below the bound, the
\* 'failed' update at the bound, after which the Post is failed.
C25_UnsupportedCountsAsFailure ==
    [][\A t \in TickIds :
          /\ (/\ ticks[t].pc = "markPosting"
              /\ PostOf(Cur(t)) \notin supported
              /\ ticks'[t] # ticks[t])
             => LET o == Cur(t)
                    n == objs[o].attempts + 1
                IN /\ publishCalls' = publishCalls
                   /\ objs'[o].attempts = n
                   /\ IF n < MAX_ATTEMPTS
                      THEN /\ objs'[o].scheduledTime = now + BackoffMs(n)
                           /\ ticks'[t].pc = "notifyRetry"
                      ELSE ticks'[t].pc = "markFailed"
          /\ (ticks[t].pc = "markFailed" /\ ticks'[t] # ticks[t])
             => status'[PostOf(Cur(t))] = "failed"]_vars

\* C25 witness: a Post with an unsupported platform is failed and no publish
\* call was made for it.
C25_Witness ==
    \E p \in Posts : p \notin supported /\ status[p] = "failed" /\ publishCalls[p] = 0

\* C30: whether it fails or not, a notification of the dispatch loop is
\* followed by what follows a notification that returned: the finally block
\* and the next due job, with the job, its Post and the tick otherwise as
\* they were.
C30_NotificationNeverAlters ==
    [][\A t \in TickIds :
          (/\ ticks[t].pc \in {"notifySuccess", "notifyRetry", "notifyFailed"}
           /\ ticks'[t] # ticks[t])
          => Notified(t)]_vars

LocalWeekday == ((now + IST_OFFSET_MS) \div DAY) % 7

\* The numbers of days from today, 1 to 7, to the dates whose weekday is in days.
LaterDays(days) == {k \in 1 .. 7 : (LocalWeekday + k) % 7 \in days}

\* C31: the Post of a slot whose time is still ahead on the local clock is
\* scheduled for that time today; the Post of a slot whose time has come is
\* scheduled for that time on the nearest of the next 7 dates whose weekday is
\* in daysOfWeek; and in both cases later than now.
C31_PastSlotRollover ==
    [][\A g \in GenIds :
          (gens[g].pc = "content" /\ gens'[g].pc = "push")
          => LET cfg == gens[g].cfg
                 today == LocalDayStart + cfg.times[gens[g].i + 1]
                 at == scheduledFor'[gens'[g].row]
             IN /\ now < today => at = today
                /\ today <= now
                   => \E k \in LaterDays(cfg.days) :
                         /\ \A j \in LaterDays(cfg.days) : k <= j
                         /\ at = today + k * DAY
                /\ now < at]_vars

\* C39: for a schedule whose weekdays are stored as strings, the Post of a
\* slot whose time has come is scheduled on a date whose weekday is in
\* daysOfWeek.
C39_StringWeekdays ==
    [][\A g \in GenIds :
          (/\ gens[g].pc = "content" /\ gens'[g].pc = "push"
           /\ gens[g].cfg.strings
           /\ LocalDayStart + gens[g].cfg.times[gens[g].i + 1] <= now)
          => \E k \in LaterDays(gens[g].cfg.days) :
                LET at == scheduledFor'[gens'[g].row] + IST_OFFSET_MS IN
                  at \div DAY = (now + IST_OFFSET_MS) \div DAY + k]_vars

\* C32: a publish call for a job starts only when the job's scheduledTime has
\* come, so after a failure that scheduled a retry not before the end of the
\* backoff.
C32_NoEarlyDispatch ==
    [][\A t \in TickIds :
          (ticks[t].pc = "markPosting" /\ ticks'[t].pc = "publishing")
          => objs[Cur(t)].scheduledTime <= now]_vars

\* The Posts whose job an activation of the dispatch loop is processing.
InProcess == {PostOf(Cur(t)) : t \in {u \in TickIds : Busy(u)}}

\* C33: the processing-set holds only Posts whose job a dispatch tick is
\* processing; it is empty whenever no dispatch tick is in progress.
C33_ProcessingSetReleased == processingJobs \subseteq InProcess

\* C33 witness: a dispatch tick whose notification threw has ended, another
\* job still waits for its retry, and the processing-set is empty.
C33_Witness ==
    /\ uncaught
    /\ \A t \in TickIds : ~Busy(t)
    /\ processingJobs = {}
    /\ \E i \in 1 .. Len(jobs) : objs[jobs[i]].attempts > 0

\* The Posts with a job in the list that waits for a retry: it has failed, a
\* retry is scheduled, and no dispatch tick is processing the Post.
WaitingForRetry ==
    {p \in Posts \ InProcess :
        \E i \in 1 .. Len(jobs) :
           /\ PostOf(jobs[i]) = p
           /\ objs[jobs[i]].attempts \in 1 .. MAX_ATTEMPTS - 1}

\* The Posts that an activation of the dispatch loop or of start() still holds.
\* The Posts in the list of due jobs of a dispatch activation or in the
\* query result of a start().
HeldByActivation ==
    UNION {{PostOf(ticks[t].due[i]) : i \in 1 .. Len(ticks[t].due)} : t \in TickIds}
    \cup UNION {{starters[s].posts[i] : i \in 1 .. Len(starters[s].posts)} : s \in StartIds}

\* The Posts in status 'posting' that nothing in memory refers to.
Orphans == {p \in Posts \ (JobPosts \cup HeldByActivation) : status[p] = "posting"}

PublishStarts(t) == ticks[t].pc = "markPosting" /\ ticks'[t].pc = "publishing"

C35_InsertFailureSkipsSlot ==
    /\ [](\A i \in 1 .. Len(jobs) : status[PostOf(jobs[i])] # "none")
    /\ [][\A g \in GenIds :
             (/\ gens[g].pc = "content"
              /\ gens'[g] # gens[g]
              /\ gens'[g].pc \notin {"push", "notifyError"})
             => /\ UNCHANGED <<store, jobs, objs>>
                /\ IF gens[g].i + 1 < SlotCount(gens[g].cfg)
                   THEN /\ gens'[g].pc = "content"
                        /\ gens'[g].i = gens[g].i + 1
                        /\ gens'[g].notified = gens[g].notified
                   ELSE gens'[g].pc = "idle"]_vars

\* C35 witness: the insert of slot 0 returned an error, the Post of slot 1 is
\* inserted and its job is about to be added.
C35_Witness ==
    \E g \in GenIds :
       /\ gens[g].pc = "push" /\ gens[g].i = 1
       /\ gens[g].made = 0 /\ gens[g].notified = 0
       /\ \A p \in Generated : slotOf[p] = 1

C37_NoDuplicateJobs ==
    \A i, j \in 1 .. Len(jobs) : i # j => PostOf(jobs[i]) # PostOf(jobs[j])

\* The generated Posts in status 'scheduled' that have no job in the list
\* while no generation is about to add one.
Unlisted ==
    {p \in Generated \ JobPosts :
        /\ status[p] = "scheduled"
        /\ \A g \in GenIds : gens[g].pc = "push" => gens[g].row # p}

\* C38: while the scheduler runs, every Post that a generation persisted and
\* that is still 'scheduled' has a job in the list.
C38_NoLostJobs == isRunning => Unlisted = {}

\* C40: there is at most one daily-generation timer, a next-midnight timeout
\* or the 24 h interval it creates, and it exists exactly when the flag
\* dailyGenerationScheduled is set; a daily timer that fires is next due a day
\* later.
C40_OneDailyChain ==
    /\ [](Len(dailyTimers) = IF dailyGenerationScheduled THEN 1 ELSE 0)
    /\ [][\A k \in 1 .. Len(dailyTimers) :
             dailyTimers'[k] # dailyTimers[k]
             => /\ dailyTimers'[k].kind = "daily"
                /\ dailyTimers'[k].due >= dailyTimers[k].due + DAY]_vars

\* C40 witness: two start() calls with a stop() between them have finished
\* and the one daily timer has fired.
C40_Witness ==
    /\ \A s \in StartIds : starters[s].pc = "done"
    /\ isRunning
    /\ Len(dailyTimers) = 1
    /\ dailyTimers[1].kind = "daily"
====
